---- MODULE Spec2Model ----
(***************************************************************************)
(* Registration and capacity handling of the campus-events backend         *)
(* (backend/routes/registrations.js, backend/models/Registration.js,       *)
(* backend/models/Event.js), the event routes (backend/routes/feedback.js) *)
(* and the browser's WebSocketService.                                     *)
(*                                                                         *)
(* One event document and the registration rows that point to it.  A row   *)
(* is identified by its user: the unique index {user, event} allows one    *)
(* row per user for the event.  Every route handler is an async function;  *)
(* each `await` of a database call is one atomic step of the request, and  *)
(* the synchronous code that follows the await belongs to the same step.   *)
(* Requests in flight are interchangeable, so they are kept as a bag.      *)
(*                                                                         *)
(* Spec has the requests of all routes on an event without a registration  *)
(* deadline; SpecFault adds database failures; SpecDeadline gives the      *)
(* event a deadline and lets the clock run; SpecObserver adds a browser    *)
(* that shows the event (frontend EventDetail.tsx and the WebSocketService *)
(* it uses) and receives the broadcasts of the routes.  SpecAuthority has  *)
(* the approve, attendance and cancel routes called by every kind of       *)
(* caller; SpecEligibility has Register calls on events with allowed*      *)
(* lists; SpecEvent has the update, approve and delete routes of the       *)
(* event; SpecSocket has the browser and its WebSocketService alone, and   *)
(* SpecSocketLive adds the fairness of the browser's event loop.           *)
(***************************************************************************)
EXTENDS Integers, FiniteSets, Sequences, Bags, TLC

\* ---------------------------------------------------------------- bounds
NumUsers    == 2    \* users that may register
MaxInFlight == 2    \* requests that may be in flight at once
MaxOps      == 2    \* requests accepted in one behaviour
MaxCap      == 2    \* largest maxCapacity an event is created with
MaxTime     == 1    \* the clock runs from 0 to MaxTime
MaxOthers   == 1    \* sockets alive besides WebSocketService.socket, and
                    \* reconnect timers pending besides reconnectTimeout

\* Event.registration.deadline is optional; an event created without one.
NoDeadline == -1

Users   == 1..NumUsers
Staff   == 0                      \* the event's organizer, holds approve_events

\* Other accounts that call the routes: a co-organizer of the event, a user
\* with the approve_events permission, and an admin; none of them has another
\* tie to the event, and the users that register have no permission.
CoOrganizer == -1
Approver    == -2
Admin       == -3

\* The callers tried in the specification of the routes' authority checks.
Actors(u) == {Staff, CoOrganizer, Approver, Admin, u, (u % NumUsers) + 1}

\* The callers tried on a request about user u's registration: the organizer,
\* the registrant and one other user.
Callers(u) == {Staff, u, (u % NumUsers) + 1}

\* The registrationIds lists tried on a bulk request: one id, or all of them.
IdLists == {{u} : u \in Users} \cup {Users}

VARIABLES
    eventStatus,       \* Event.status, "deleted" = the document is gone
    approval,          \* Event.approval.status
    maxCapacity,       \* Event.registration.maxCapacity
    approvalRequired,  \* Event.registration.approvalRequired
    deadline,          \* Event.registration.deadline, NoDeadline = not set
    allowedRoles,        \* Event.registration.allowedRoles
    allowedDepartments,  \* Event.registration.allowedDepartments
    allowedYears,        \* Event.registration.allowedYears
    now,               \* the server's clock, read by `new Date()`
    currentCount,      \* Event.registration.currentCount
    status,            \* Registration.status per row (user), "none" = no row yet
    inflight,          \* bag of the requests being handled
    last,              \* the request answered most recently
    releases,          \* history: number of $inc -1 issued for each row
    inserts,           \* history: number of rows inserted for each user
    incs,              \* history: number of $inc +1 issued for each user
    started,           \* history: number of requests accepted so far
    uncast,            \* history: the changes that are committed (the handler
                       \* has made its last write) and whose broadcast has not
                       \* been emitted yet, oldest first
    page,              \* the observer's browser: EventDetail's route and `event`
    socket,            \* WebSocketService.socket: "null" or its readyState
    room,              \* the server has the observer's socket in the event's room
    attendeeCount,     \* EventDetail's attendeeCount
    reconnectAttempts, \* WebSocketService.reconnectAttempts
    reconnectTimeout,  \* the timer WebSocketService.reconnectTimeout is pending
    timers,            \* pending reconnect timers whose handle was overwritten
    others,            \* bag of the readyStates of the sockets that are alive and
                       \* that WebSocketService.socket no longer refers to
    joined             \* a join-event for the event was sent on the connection
                       \* of WebSocketService.socket

vars == <<eventStatus, approval, maxCapacity, approvalRequired, deadline,
          allowedRoles, allowedDepartments, allowedYears, now, currentCount,
          status, inflight, last, releases, inserts, incs,
          started, uncast, page, socket, room, attendeeCount,
          reconnectAttempts, reconnectTimeout, timers, others, joined>>

\* Event.registration.allowedRoles / allowedDepartments / allowedYears
allowed == <<allowedRoles, allowedDepartments, allowedYears>>

event == <<eventStatus, approval, maxCapacity, approvalRequired, deadline,
           allowed>>

\* The state of WebSocketService besides its socket.
service == <<reconnectAttempts, reconnectTimeout, timers, others, joined>>

client == <<page, socket, room, service>>

\* The allowed keys of the body of an event update: without a `registration`
\* object (a change of the title, say).
NoBody == [registration |-> FALSE, maxCapacity |-> 0, approvalRequired |-> FALSE,
           currentCount |-> 0]

\* The bodies tried on an event update: the one without a `registration`
\* object, and those with one that carries maxCapacity, approvalRequired and
\* currentCount (0 also stands for an object without currentCount: the field
\* is then unset, which every reader and $inc treats as 0) and no deadline and
\* no allowed* list.
Bodies ==
    {NoBody} \cup
    { [registration |-> TRUE, maxCapacity |-> m, approvalRequired |-> q,
       currentCount |-> c] : m \in 1..MaxCap, q \in BOOLEAN, c \in 0..MaxCap }

\* A request: the handler's position (pc), its inputs (op, actor, target,
\* flag = approved/present), its locals (loaded = status of the document it
\* read, todo = documents a bulk request still has to handle, cnt =
\* currentRegistrations of a Register, body = the allowed keys of the body of
\* an event update), its answer, and three history fields:
\* the rows whose status it saved (applied), the net change it made to
\* currentCount (delta) and the value of currentCount right after its own
\* $inc +1 (after).
NoRequest == [pc |-> "idle", op |-> "none", actor |-> Staff, target |-> 0,
              flag |-> FALSE, todo |-> {}, applied |-> {},
              loaded |-> "none", cnt |-> 0, result |-> "none", delta |-> 0,
              after |-> 0, body |-> NoBody]

InFlight == BagToSet(inflight)

\* The server takes another request.
Free == BagCardinality(inflight) < MaxInFlight /\ started < MaxOps

\* ------------------------------------------------------------ pure helpers

\* user.role
role(a) == IF a = Admin THEN "admin"
           ELSE IF a = Staff THEN "organizer"
           ELSE IF a \in Users /\ a % 2 = 1 THEN "student"
           ELSE "faculty"

\* user.department: the users are spread over two departments.
department(u) == (u % 2) + 1

\* user.year: a student's year of study; other users have none.
NoYear == 0
year(u) == IF role(u) = "student" THEN (u + 1) \div 2 ELSE NoYear

\* The values the event's allowed* lists are filled from.
Roles       == {"student", "faculty"}
Departments == {1, 2}
Years       == {1, 2}

\* canUserRegister that takes an empty list as a list that allows nobody.
canUserRegisterEmptyDenies(u) ==
    /\ role(u) \in allowedRoles
    /\ department(u) \in allowedDepartments
    /\ year(u) \in allowedYears

\* Event.canUserRegister: a non-empty allowed* list must include the user's
\* role, department, year.
canUserRegister(u) ==
    IF allowedRoles # {} /\ role(u) \notin allowedRoles THEN FALSE
    ELSE IF allowedDepartments # {} /\ department(u) \notin allowedDepartments
      THEN FALSE
    ELSE IF allowedYears # {} /\ year(u) \notin allowedYears THEN FALSE
    ELSE TRUE

\* Registration.countDocuments({event, status: {$in: ['approved','pending']}})
countDocuments(st) == Cardinality({u \in Users : st[u] \in {"approved", "pending"}})

\* event.registration.deadline && new Date() > event.registration.deadline
deadlinePassed(d, t) == d # NoDeadline /\ t > d

\* event.coOrganizers
coOrganizers == {CoOrganizer}

\* User.hasPermission('approve_events'): this.permissions.includes(permission)
hasPermission(a) == a \in {Staff, Approver}

\* canApprove / canMarkAttendance of the approve and attendance routes: the
\* organizer, a co-organizer, a holder of approve_events or an admin.
canApprove(a) ==
    a = Staff \/ a \in coOrganizers \/ hasPermission(a) \/ role(a) = "admin"

\* checkPermission('approve_events') middleware of the bulk route.
checkPermission(a) == hasPermission(a)

\* canCancel that takes everybody who may approve.
canCancelAsApprove(a, u) == a = u \/ canApprove(a)

\* canCancel of the delete route: the registrant, the organizer or an admin.
canCancel(a, u) == a = u \/ a = Staff \/ role(a) = "admin"

\* canEdit of the event update route: the organizer, a co-organizer or an
\* admin.
canEdit(a) == a = Staff \/ a \in coOrganizers \/ role(a) = "admin"

\* canDelete of the event delete route: the organizer or an admin.
canDelete(a) == a = Staff \/ role(a) = "admin"

\* Document.save(): only modified paths are written; assigning the value the
\* document was loaded with does not mark `status` modified.
save(st, u, loadedStatus, newStatus) ==
    IF newStatus = loadedStatus THEN st ELSE [st EXCEPT ![u] = newStatus]

\* Event.findByIdAndUpdate(id, {$inc: {'registration.currentCount': d}})
inc(c, d) == c + d

\* Payload of the 'new-registration' broadcast of the Register call r.
newRegistration(r) ==
    [type |-> "new-registration", eventId |-> "event", userId |-> r.target,
     currentCount |-> r.cnt + 1]

\* Payload of the 'registration-status-updated' broadcast of the Decide call r.
registrationStatusUpdated(r) ==
    [type |-> "registration-status-updated", registration |-> r.target,
     approved |-> r.flag, eventId |-> "undefined"]

\* Payload of the 'attendance-marked' broadcast of the attendance call r.
attendanceMarked(r) ==
    [type |-> "attendance-marked", registration |-> r.target,
     present |-> r.flag, eventId |-> "undefined"]

\* Payload of the 'registration-cancelled' broadcast of the Cancel call r.
registrationCancelled(r) ==
    [type |-> "registration-cancelled", registrationId |-> r.target,
     eventId |-> "undefined"]

\* EventDetail's listeners: 'new-registration' adds one, 'registration-status-
\* updated' takes data.approvedCount, both only if data.eventId is the event
\* shown; there is no listener for another type.
onMessage(count, data) ==
    IF data.type = "new-registration"
      THEN (IF data.eventId = "event" THEN count + 1 ELSE count)
    ELSE IF data.type = "registration-status-updated"
      THEN (IF data.eventId = "event" THEN data.approvedCount ELSE count)
    ELSE count

\* req.io.to('event-' + id).emit(...): the observer gets the message if its
\* socket is in the room, and has listeners once `event` is loaded.
Deliver(data) ==
    attendeeCount' = IF room /\ page = "shown" THEN onMessage(attendeeCount, data)
                     ELSE attendeeCount

\* event.stats.approvedRegistrations of the event the observer fetched: the
\* number of registrations in status approved.
approvedRegistrations(st) == Cardinality({u \in Users : st[u] = "approved"})

\* WebSocketService.send: the message leaves only through an open socket.
send(sock) == sock = "OPEN"

\* The server's 'join-event' handler: the socket joins the event's room when
\* the message arrives.
joinRoom(arrived) == arrived

\* The change the request r makes.
change(r) == <<r.op, r.target>>

\* q without its oldest entry e.
Without(q, e) ==
    LET i == CHOOSE i \in 1..Len(q) : q[i] = e /\ \A j \in 1..(i - 1) : q[j] # e
    IN  SubSeq(q, 1, i - 1) \o SubSeq(q, i + 1, Len(q))

\* Request r ends with answer res.
Finish(r, res) == [r EXCEPT !.pc = "done", !.result = res]

\* A new request becomes r: it is answered at once (r.pc = "done") or is in
\* flight from now on.
Accept(r) ==
    /\ Free
    /\ started' = started + 1
    /\ IF r.pc = "done"
         THEN last' = r /\ UNCHANGED inflight
         ELSE inflight' = inflight (+) SetToBag({r}) /\ UNCHANGED last

\* The request in flight r becomes r2; once the response is sent
\* (r2.pc = "done") the handler has returned.
Put(r, r2) ==
    /\ UNCHANGED started
    /\ IF r2.pc = "done"
         THEN inflight' = inflight (-) SetToBag({r}) /\ last' = r2
         ELSE /\ inflight' = (inflight (-) SetToBag({r})) (+) SetToBag({r2})
              /\ UNCHANGED last

At(r, pc) == r \in InFlight /\ r.pc = pc

\* ------------------------------------------------------------------ Init
\* initialStatus of code that ignores approvalRequired.
initialStatusApproved == "approved"

\* Status a new registration is saved with.
initialStatus == IF approvalRequired THEN "pending" ELSE "approved"

\* The event is published and users 1..n have registered one after the other
\* (n = 0: nobody has); each has a row in its initial status and has been
\* counted once.
Registered ==
    { [u \in Users |-> IF u <= n THEN initialStatus ELSE "none"] :
        n \in {m \in 0..NumUsers : m <= maxCapacity} }

Seeded ==
    /\ maxCapacity \in 1..MaxCap
    /\ approvalRequired \in BOOLEAN
    /\ status \in Registered
    /\ currentCount = Cardinality({u \in Users : status[u] # "none"})
    /\ inflight = EmptyBag
    /\ last = NoRequest
    /\ releases = [u \in Users |-> 0]
    /\ inserts = [u \in Users |-> IF status[u] # "none" THEN 1 ELSE 0]
    /\ incs = inserts
    /\ started = 0
    /\ now = 0
    /\ uncast = << >>
    /\ page = "closed"
    /\ socket = "null"
    /\ room = FALSE
    /\ attendeeCount = 0
    /\ reconnectAttempts = 0
    /\ reconnectTimeout = FALSE
    /\ timers = 0
    /\ others = EmptyBag
    /\ joined = FALSE

\* The event is open to every user.
Unrestricted ==
    allowedRoles = {} /\ allowedDepartments = {} /\ allowedYears = {}

\* The event was approved and is published.
Created ==
    eventStatus = "published" /\ approval = "approved" /\ Seeded /\ Unrestricted

\* An event without a registration deadline.
Init == Created /\ deadline = NoDeadline

\* ------------------------------------------------- POST /registrations
\* await Event.findById; published and eligibility checks.
RegisterLoadEvent(u) ==
    /\ LET r == [NoRequest EXCEPT !.op = "register", !.actor = u, !.target = u] IN
       Accept(IF eventStatus # "published" THEN Finish(r, "EventNotAdmitting")
              ELSE IF ~canUserRegister(u) THEN Finish(r, "NotEligible")
              ELSE [r EXCEPT !.pc = "r_find"])
    /\ UNCHANGED <<event, now, client, attendeeCount, uncast, currentCount,
                   status, releases, inserts, incs>>

\* RegisterFindExisting with the capacity check in front of the deadline check.
RegisterFindExistingCapacityFirst(r) ==
    /\ At(r, "r_find")
    /\ Put(r, IF status[r.target] # "none" THEN Finish(r, "AlreadyRegistered")
              ELSE IF countDocuments(status) >= maxCapacity THEN Finish(r, "EventFull")
              ELSE IF deadlinePassed(deadline, now) THEN Finish(r, "DeadlinePassed")
              ELSE [r EXCEPT !.pc = "r_count"])
    /\ UNCHANGED <<event, now, client, attendeeCount, uncast, currentCount,
                   status, releases, inserts, incs>>

\* RegisterFindExisting without the deadline check.
RegisterFindExistingNoDeadline(r) ==
    /\ At(r, "r_find")
    /\ Put(r, IF status[r.target] # "none" THEN Finish(r, "AlreadyRegistered")
              ELSE [r EXCEPT !.pc = "r_count"])
    /\ UNCHANGED <<event, now, client, attendeeCount, uncast, currentCount,
                   status, releases, inserts, incs>>

\* await Registration.findOne({user, event}); already-registered check, then
\* the deadline check against `new Date()`.
RegisterFindExisting(r) ==
    /\ At(r, "r_find")
    /\ Put(r, IF status[r.target] # "none" THEN Finish(r, "AlreadyRegistered")
              ELSE IF deadlinePassed(deadline, now) THEN Finish(r, "DeadlinePassed")
              ELSE [r EXCEPT !.pc = "r_count"])
    /\ UNCHANGED <<event, now, client, attendeeCount, uncast, currentCount,
                   status, releases, inserts, incs>>

\* await Registration.countDocuments; capacity check.
RegisterCount(r) ==
    /\ At(r, "r_count")
    /\ LET r2 == [r EXCEPT !.cnt = countDocuments(status)] IN
       Put(r, IF r2.cnt >= maxCapacity THEN Finish(r2, "EventFull")
              ELSE [r2 EXCEPT !.pc = "r_save"])
    /\ UNCHANGED <<event, now, client, attendeeCount, uncast, currentCount,
                   status, releases, inserts, incs>>

\* RegisterSave on a collection without the unique index {user, event}.
RegisterSaveNoUniqueIndex(r) ==
    /\ At(r, "r_save")
    /\ status' = [status EXCEPT ![r.target] = initialStatus]
    /\ inserts' = [inserts EXCEPT ![r.target] = @ + 1]
    /\ Put(r, [r EXCEPT !.pc = "r_inc", !.applied = {r.target}])
    /\ UNCHANGED <<event, now, client, attendeeCount, uncast, currentCount,
                   releases, incs>>

\* await registration.save(): insert; the unique index rejects a second row
\* of the same user and the catch block answers 500.
RegisterSave(r) ==
    /\ At(r, "r_save")
    /\ IF status[r.target] # "none"
         THEN /\ Put(r, Finish(r, "InternalError"))
              /\ UNCHANGED <<status, inserts>>
         ELSE /\ status' = [status EXCEPT ![r.target] = initialStatus]
              /\ inserts' = [inserts EXCEPT ![r.target] = @ + 1]
              /\ Put(r, [r EXCEPT !.pc = "r_inc", !.applied = {r.target}])
    /\ UNCHANGED <<event, now, client, attendeeCount, uncast, currentCount,
                   releases, incs>>

\* await Event.findByIdAndUpdate($inc currentCount 1)
RegisterInc(r) ==
    /\ At(r, "r_inc")
    /\ currentCount' = inc(currentCount, 1)
    /\ incs' = [incs EXCEPT ![r.target] = @ + 1]
    /\ uncast' = Append(uncast, change(r))
    /\ Put(r, [r EXCEPT !.pc = "r_emit", !.delta = @ + 1,
                         !.after = currentCount'])
    /\ UNCHANGED <<event, now, client, attendeeCount, status, releases,
                   inserts>>

\* await registration.populate; emit 'new-registration' (the broadcast of the
\* insert); 201.
RegisterEmit(r) ==
    /\ At(r, "r_emit")
    /\ uncast' = Without(uncast, change(r))
    /\ Put(r, Finish(r, "ok"))
    /\ Deliver(newRegistration(r))
    /\ UNCHANGED <<event, now, client, currentCount, status, releases, inserts,
                   incs>>

\* ------------------------------------------ PUT /registrations/:id/approve
\* DecideLoad without the `registration.status !== 'pending'` guard.
DecideLoadNoStatusCheck(a, u, approved) ==
    /\ LET r == [NoRequest EXCEPT !.op = "decide", !.actor = a, !.target = u,
                                  !.flag = approved, !.loaded = status[u]] IN
       Accept(IF status[u] = "none" THEN Finish(r, "NotFound")
              ELSE IF ~canApprove(a) THEN Finish(r, "NotAuthorized")
              ELSE [r EXCEPT !.pc = "d_save"])
    /\ UNCHANGED <<event, now, client, attendeeCount, uncast, currentCount,
                   status, releases, inserts, incs>>

\* await Registration.findById; 404, canApprove and status checks.
DecideLoad(a, u, approved) ==
    /\ LET r == [NoRequest EXCEPT !.op = "decide", !.actor = a, !.target = u,
                                  !.flag = approved, !.loaded = status[u]] IN
       Accept(IF status[u] = "none" THEN Finish(r, "NotFound")
              ELSE IF ~canApprove(a) THEN Finish(r, "NotAuthorized")
              ELSE IF status[u] # "pending" THEN Finish(r, "InvalidTransition")
              ELSE [r EXCEPT !.pc = "d_save"])
    /\ UNCHANGED <<event, now, client, attendeeCount, uncast, currentCount,
                   status, releases, inserts, incs>>

\* await registration.approve(req.user) / registration.reject(reason, req.user);
\* approved: emit; 200.
DecideSave(r) ==
    /\ At(r, "d_save")
    /\ status' = save(status, r.target, r.loaded,
                      IF r.flag THEN "approved" ELSE "rejected")
    /\ Put(r, IF r.flag THEN [Finish(r, "ok") EXCEPT !.applied = {r.target}]
              ELSE [r EXCEPT !.pc = "d_release", !.applied = {r.target}])
    /\ IF r.flag THEN Deliver(registrationStatusUpdated(r))
                 ELSE UNCHANGED attendeeCount
    /\ UNCHANGED <<event, now, client, uncast, currentCount, releases, inserts,
                   incs>>

\* rejected: await Event.findByIdAndUpdate($inc currentCount -1); emit; 200.
DecideRelease(r) ==
    /\ At(r, "d_release")
    /\ currentCount' = inc(currentCount, -1)
    /\ releases' = [releases EXCEPT ![r.target] = @ + 1]
    /\ Put(r, [Finish(r, "ok") EXCEPT !.delta = @ - 1])
    /\ Deliver(registrationStatusUpdated(r))
    /\ UNCHANGED <<event, now, client, uncast, status, inserts, incs>>

\* --------------------------------------- PUT /registrations/:id/attendance
\* await Registration.findById; 404, canMarkAttendance and status checks.
AttendanceLoad(a, u, present) ==
    /\ LET r == [NoRequest EXCEPT !.op = "attendance", !.actor = a, !.target = u,
                                  !.flag = present, !.loaded = status[u]] IN
       Accept(IF status[u] = "none" THEN Finish(r, "NotFound")
              ELSE IF ~canApprove(a) THEN Finish(r, "NotAuthorized")
              ELSE IF status[u] # "approved" THEN Finish(r, "InvalidTransition")
              ELSE [r EXCEPT !.pc = "a_save"])
    /\ UNCHANGED <<event, now, client, attendeeCount, uncast, currentCount,
                   status, releases, inserts, incs>>

\* await registration.markAttendance(present); emit; 200.  (Requests carry
\* no location, so the second save of checkIn.location is not taken.)
AttendanceSave(r) ==
    /\ At(r, "a_save")
    /\ status' = save(status, r.target, r.loaded,
                      IF r.flag THEN "attended" ELSE "absent")
    /\ Put(r, [Finish(r, "ok") EXCEPT !.applied = {r.target}])
    /\ Deliver(attendanceMarked(r))
    /\ UNCHANGED <<event, now, client, uncast, currentCount, releases, inserts,
                   incs>>

\* ------------------------------------------------ DELETE /registrations/:id
\* await Registration.findById; 404 and canCancel checks.
CancelLoad(a, u) ==
    /\ LET r == [NoRequest EXCEPT !.op = "cancel", !.actor = a, !.target = u,
                                  !.loaded = status[u]] IN
       Accept(IF status[u] = "none" THEN Finish(r, "NotFound")
              ELSE IF ~canCancel(a, u) THEN Finish(r, "NotAuthorized")
              ELSE [r EXCEPT !.pc = "c_save"])
    /\ UNCHANGED <<event, now, client, attendeeCount, uncast, currentCount,
                   status, releases, inserts, incs>>

\* registration.status = 'cancelled'; await registration.save()
CancelSave(r) ==
    /\ At(r, "c_save")
    /\ status' = save(status, r.target, r.loaded, "cancelled")
    /\ Put(r, [r EXCEPT !.pc = "c_release", !.applied = {r.target}])
    /\ UNCHANGED <<event, now, client, attendeeCount, uncast, currentCount,
                   releases, inserts, incs>>

\* await Event.findByIdAndUpdate($inc currentCount -1); emit; 200.
CancelRelease(r) ==
    /\ At(r, "c_release")
    /\ currentCount' = inc(currentCount, -1)
    /\ releases' = [releases EXCEPT ![r.target] = @ + 1]
    /\ Put(r, [Finish(r, "ok") EXCEPT !.delta = @ - 1])
    /\ Deliver(registrationCancelled(r))
    /\ UNCHANGED <<event, now, client, uncast, status, inserts, incs>>

\* ------------------------------------------ POST /registrations/bulk-approve
\* BulkLoad whose find has no `status: 'pending'` filter.
BulkLoadAnyStatus(a, ids, approved) ==
    /\ LET found == {u \in ids : status[u] # "none"}
           r == [NoRequest EXCEPT !.op = "bulk", !.actor = a, !.flag = approved] IN
       Accept(IF ~checkPermission(a) THEN Finish(r, "NotAuthorized")
              ELSE IF found = {} THEN Finish(r, "ok")
              ELSE [r EXCEPT !.pc = "b_save", !.todo = found,
                             !.loaded = "pending"])
    /\ UNCHANGED <<event, now, client, attendeeCount, uncast, currentCount,
                   status, releases, inserts, incs>>

\* checkPermission('approve_events'); await Registration.find({_id: {$in: ids},
\* status: 'pending'}); the loop then handles the loaded documents one by one.
BulkLoad(a, ids, approved) ==
    /\ LET found == {u \in ids : status[u] = "pending"}
           r == [NoRequest EXCEPT !.op = "bulk", !.actor = a, !.flag = approved] IN
       Accept(IF ~checkPermission(a) THEN Finish(r, "NotAuthorized")
              ELSE IF found = {} THEN Finish(r, "ok")
              ELSE [r EXCEPT !.pc = "b_save", !.todo = found,
                             !.loaded = "pending"])
    /\ UNCHANGED <<event, now, client, attendeeCount, uncast, currentCount,
                   status, releases, inserts, incs>>

\* loop body: await registration.approve / registration.reject of the next
\* loaded document u.
BulkSave(r, u) ==
    /\ At(r, "b_save")
    /\ u \in r.todo
    /\ status' = save(status, u, "pending",
                      IF r.flag THEN "approved" ELSE "rejected")
    /\ LET r2 == [r EXCEPT !.target = u, !.todo = @ \ {u},
                           !.applied = @ \cup {u}] IN
       Put(r, IF ~r.flag THEN [r2 EXCEPT !.pc = "b_release"]
              ELSE IF r2.todo = {} THEN Finish(r2, "ok")
              ELSE r2)
    /\ UNCHANGED <<event, now, client, attendeeCount, uncast, currentCount,
                   releases, inserts, incs>>

\* loop body, rejected: await Event.findByIdAndUpdate($inc currentCount -1)
BulkRelease(r) ==
    /\ At(r, "b_release")
    /\ currentCount' = inc(currentCount, -1)
    /\ releases' = [releases EXCEPT ![r.target] = @ + 1]
    /\ LET r2 == [r EXCEPT !.delta = @ - 1] IN
       Put(r, IF r.todo = {} THEN Finish(r2, "ok")
              ELSE [r2 EXCEPT !.pc = "b_save"])
    /\ UNCHANGED <<event, now, client, attendeeCount, uncast, status, inserts,
                   incs>>

\* POST /registrations
Register ==
    \/ \E u \in Users : RegisterLoadEvent(u)
    \/ \E r \in InFlight : RegisterFindExisting(r)
    \/ \E r \in InFlight : RegisterCount(r)
    \/ \E r \in InFlight : RegisterSave(r)
    \/ \E r \in InFlight : RegisterInc(r)
    \/ \E r \in InFlight : RegisterEmit(r)

\* DELETE /registrations/:id
Cancel ==
    \/ \E u \in Users : \E a \in Callers(u) : CancelLoad(a, u)
    \/ \E r \in InFlight : CancelSave(r)
    \/ \E r \in InFlight : CancelRelease(r)

\* PUT /registrations/:id/approve
Decide ==
    \/ \E u \in Users, approved \in BOOLEAN :
          \E a \in {Staff, u} : DecideLoad(a, u, approved)
    \/ \E r \in InFlight : DecideSave(r)
    \/ \E r \in InFlight : DecideRelease(r)

Next ==
    \/ Register
    \/ Cancel
    \/ Decide
    \/ \E u \in Users, present \in BOOLEAN :
          \E a \in {Staff, u} : AttendanceLoad(a, u, present)
    \/ \E r \in InFlight : AttendanceSave(r)
    \/ \E ids \in IdLists, approved \in BOOLEAN :
          \E a \in {Staff, 1} : BulkLoad(a, ids, approved)
    \/ \E r \in InFlight, u \in Users : BulkSave(r, u)
    \/ \E r \in InFlight : BulkRelease(r)

Spec == Init /\ [][Next]_vars

\* ------------------------------------------------------- the observer
server == <<event, now, currentCount, status, inflight, last, releases, inserts,
            incs, started, uncast>>

\* WebSocketService.maxReconnectAttempts
maxReconnectAttempts == 5

\* WebSocketService.connect: this.socket = new WebSocket(...).  A socket that
\* this.socket referred to and that is not closed stays alive with its
\* handlers.
connect ==
    /\ socket \in {"CONNECTING", "OPEN"} => BagCardinality(others) < MaxOthers
    /\ socket' = "CONNECTING"
    /\ others' = IF socket \in {"CONNECTING", "OPEN"}
                   THEN others (+) SetToBag({socket}) ELSE others

\* WebSocketService.attemptReconnect: below maxReconnectAttempts it counts
\* the attempt and sets a timer that calls connect(); a timer that
\* reconnectTimeout referred to stays pending.
attemptReconnect ==
    IF reconnectAttempts < maxReconnectAttempts
      THEN /\ reconnectTimeout => timers < MaxOthers
           /\ reconnectAttempts' = reconnectAttempts + 1
           /\ reconnectTimeout' = TRUE
           /\ timers' = IF reconnectTimeout THEN timers + 1 ELSE timers
      ELSE UNCHANGED <<reconnectAttempts, reconnectTimeout, timers>>

\* The browser opens an EventDetail page, of this event or of another one:
\* useWebSocket's effect runs connect(), then EventDetail's effect runs
\* fetchEvent() and joinEvent(id), whose message send() lets through only if
\* the socket is open.
Mount ==
    /\ page = "closed"
    /\ connect
    /\ page' \in {"other", "loading"}
    /\ room' = (page' = "loading" /\ joinRoom(send(socket')))
    /\ joined' = (page' = "loading" /\ send(socket'))
    /\ UNCHANGED <<server, attendeeCount, reconnectAttempts, reconnectTimeout,
                   timers>>

\* socket.onopen
SocketOpen ==
    /\ socket = "CONNECTING"
    /\ socket' = "OPEN"
    /\ reconnectAttempts' = 0
    /\ UNCHANGED <<server, page, room, attendeeCount, reconnectTimeout, timers,
                   others, joined>>

\* The route's id changes to this event: EventDetail's effect runs again,
\* fetchEvent() and joinEvent(id).
Navigate ==
    /\ page = "other"
    /\ page' = "loading"
    /\ room' = joinRoom(send(socket))
    /\ joined' = send(socket)
    /\ UNCHANGED <<server, socket, attendeeCount, reconnectAttempts,
                   reconnectTimeout, timers, others>>

\* fetchEvent() returns: setEvent, then the effect on `event` sets
\* attendeeCount and subscribes the listeners.
FetchEvent ==
    /\ page = "loading"
    /\ page' = "shown"
    /\ attendeeCount' = approvedRegistrations(status)
    /\ UNCHANGED <<server, socket, room, service>>

Observer == Mount \/ SocketOpen \/ Navigate \/ FetchEvent

\* The browser leaves the page: useWebSocket's cleanup runs disconnect(),
\* which clears reconnectTimeout, closes the socket and forgets it; the
\* leaveEvent of EventDetail's cleanup then finds no socket.
Unmount ==
    /\ page # "closed"
    /\ page' = "closed"
    /\ socket \in {"CONNECTING", "OPEN"} => BagCardinality(others) < MaxOthers
    /\ others' = IF socket \in {"CONNECTING", "OPEN"}
                   THEN others (+) SetToBag({"CLOSING"}) ELSE others
    /\ socket' = "null"
    /\ reconnectTimeout' = FALSE
    /\ room' = FALSE
    /\ joined' = FALSE
    /\ attendeeCount' = 0
    /\ UNCHANGED <<server, reconnectAttempts, timers>>

\* The connection of this.socket is lost: socket.onclose, which calls
\* attemptReconnect().
SocketClose ==
    /\ socket \in {"CONNECTING", "OPEN"}
    /\ socket' = "CLOSED"
    /\ attemptReconnect
    /\ room' = FALSE
    /\ joined' = FALSE
    /\ UNCHANGED <<server, page, attendeeCount, others>>

\* onopen of a socket that this.socket no longer refers to.
OtherOpen ==
    /\ "CONNECTING" \in BagToSet(others)
    /\ others' = (others (-) SetToBag({"CONNECTING"})) (+) SetToBag({"OPEN"})
    /\ reconnectAttempts' = 0
    /\ UNCHANGED <<server, page, socket, room, attendeeCount, reconnectTimeout,
                   timers, joined>>

\* onclose of a socket that this.socket no longer refers to: the close that
\* disconnect() asked for completes, or the connection is lost; the handler
\* calls attemptReconnect().
OtherClose(s) ==
    /\ s \in BagToSet(others)
    /\ others' = others (-) SetToBag({s})
    /\ attemptReconnect
    /\ UNCHANGED <<server, page, socket, room, attendeeCount, joined>>

\* The timer of reconnectTimeout fires: connect().
ReconnectTimer ==
    /\ reconnectTimeout
    /\ reconnectTimeout' = FALSE
    /\ connect
    /\ room' = FALSE
    /\ joined' = FALSE
    /\ UNCHANGED <<server, page, attendeeCount, reconnectAttempts, timers>>

\* A reconnect timer whose handle was overwritten fires: connect().
LostTimer ==
    /\ timers > 0
    /\ timers' = timers - 1
    /\ connect
    /\ room' = FALSE
    /\ joined' = FALSE
    /\ UNCHANGED <<server, page, attendeeCount, reconnectAttempts,
                   reconnectTimeout>>

\* The browser and its WebSocketService alone.
NextSocket ==
    \/ Observer
    \/ Unmount
    \/ SocketClose
    \/ OtherOpen
    \/ \E s \in BagToSet(others) : OtherClose(s)
    \/ ReconnectTimer
    \/ LostTimer

SpecSocket == Init /\ [][NextSocket]_vars

\* The browser's event loop runs every callback that is due: a connecting
\* socket opens unless it is closed, a closing socket closes, a timer fires,
\* a fetch returns.  The user's moves and the loss of a connection are not
\* bound to happen.
SpecSocketLive ==
    /\ SpecSocket
    /\ WF_vars(SocketOpen) /\ WF_vars(OtherOpen) /\ WF_vars(FetchEvent)
    /\ WF_vars(OtherClose("CLOSING"))
    /\ WF_vars(ReconnectTimer) /\ WF_vars(LostTimer)

\* The requests of this specification are Register, Decide and Cancel calls.
NextObserver == Register \/ Decide \/ Cancel \/ Observer

SpecObserver == Init /\ [][NextObserver]_vars

\* ------------------------------------------------------------ the clock
\* Time passes.
Tick ==
    /\ now < MaxTime
    /\ now' = now + 1
    /\ UNCHANGED <<event, client, attendeeCount, uncast, currentCount, status,
                   inflight, last, releases, inserts, incs, started>>

\* An event whose registration deadline is the instant MaxTime - 1: requests
\* are handled at, and one tick after, the deadline (and before it when
\* MaxTime > 1).
InitDeadline == Created /\ deadline = MaxTime - 1

\* The requests of this specification are Register and Cancel calls.
NextDeadline == Register \/ Cancel \/ Tick

SpecDeadline == InitDeadline /\ [][NextDeadline]_vars

\* --------------------------------------------------------- PUT /events/:id
\* await Event.findById; 404 and canEdit checks; the allowed keys of the body
\* become `updates`, and an event loaded as published goes back to draft.
EventUpdateLoad(a, b) ==
    /\ LET r == [NoRequest EXCEPT !.op = "update", !.actor = a, !.body = b,
                                  !.loaded = eventStatus] IN
       Accept(IF eventStatus = "deleted" THEN Finish(r, "NotFound")
              ELSE IF ~canEdit(a) THEN Finish(r, "NotAuthorized")
              ELSE [r EXCEPT !.pc = "u_set"])
    /\ UNCHANGED <<event, now, client, attendeeCount, uncast, currentCount,
                   status, releases, inserts, incs>>

\* await Event.findByIdAndUpdate(id, {$set: updates}); emit 'event-updated';
\* 200.  $set of the key `registration` replaces the whole registration
\* object of the document by the one of the body.
EventUpdateSet(r) ==
    /\ At(r, "u_set")
    /\ IF eventStatus # "deleted" /\ r.body.registration
         THEN /\ maxCapacity' = r.body.maxCapacity
              /\ approvalRequired' = r.body.approvalRequired
              /\ currentCount' = r.body.currentCount
              /\ deadline' = NoDeadline
              /\ allowedRoles' = {}
              /\ allowedDepartments' = {}
              /\ allowedYears' = {}
         ELSE UNCHANGED <<maxCapacity, approvalRequired, currentCount, deadline,
                          allowed>>
    /\ IF eventStatus # "deleted" /\ r.loaded = "published"
         THEN eventStatus' = "draft" /\ approval' = "pending"
         ELSE UNCHANGED <<eventStatus, approval>>
    /\ Put(r, [Finish(r, "ok") EXCEPT !.delta = currentCount' - currentCount])
    /\ UNCHANGED <<now, client, attendeeCount, uncast, status, releases, inserts,
                   incs>>

\* ------------------------------------------------ POST /events/:id/approve
\* checkPermission('approve_events'); await Event.findById; 404 and
\* `approval.status !== 'pending'` checks.
EventApproveLoad(a, approved) ==
    /\ LET r == [NoRequest EXCEPT !.op = "approveEvent", !.actor = a,
                                  !.flag = approved, !.loaded = eventStatus] IN
       Accept(IF ~checkPermission(a) THEN Finish(r, "NotAuthorized")
              ELSE IF eventStatus = "deleted" THEN Finish(r, "NotFound")
              ELSE IF approval # "pending" THEN Finish(r, "InvalidTransition")
              ELSE [r EXCEPT !.pc = "e_save"])
    /\ UNCHANGED <<event, now, client, attendeeCount, uncast, currentCount,
                   status, releases, inserts, incs>>

\* approval.status = approved / rejected; approved: status = 'published';
\* await event.save(), which rejects when the document is gone; emit; 200.
EventApproveSave(r) ==
    /\ At(r, "e_save")
    /\ IF eventStatus = "deleted"
         THEN /\ Put(r, Finish(r, "InternalError"))
              /\ UNCHANGED <<eventStatus, approval>>
         ELSE /\ approval' = IF r.flag THEN "approved" ELSE "rejected"
              /\ eventStatus' = IF r.flag THEN "published" ELSE eventStatus
              /\ Put(r, Finish(r, "ok"))
    /\ UNCHANGED <<maxCapacity, approvalRequired, deadline, allowed, now, client,
                   attendeeCount, uncast, currentCount, status, releases,
                   inserts, incs>>

\* ------------------------------------------------------ DELETE /events/:id
\* await Event.findById; 404 and canDelete checks; a published event with
\* currentCount > 0 is not deleted.
EventDeleteLoad(a) ==
    /\ LET r == [NoRequest EXCEPT !.op = "delete", !.actor = a,
                                  !.loaded = eventStatus] IN
       Accept(IF eventStatus = "deleted" THEN Finish(r, "NotFound")
              ELSE IF ~canDelete(a) THEN Finish(r, "NotAuthorized")
              ELSE IF eventStatus = "published" /\ currentCount > 0
                THEN Finish(r, "HasRegistrations")
              ELSE [r EXCEPT !.pc = "x_event"])
    /\ UNCHANGED <<event, now, client, attendeeCount, uncast, currentCount,
                   status, releases, inserts, incs>>

\* await Event.findByIdAndDelete(id)
EventDeleteEvent(r) ==
    /\ At(r, "x_event")
    /\ eventStatus' = "deleted"
    /\ Put(r, [r EXCEPT !.pc = "x_rows"])
    /\ UNCHANGED <<approval, maxCapacity, approvalRequired, deadline, allowed,
                   now, client, attendeeCount, uncast, currentCount, status,
                   releases, inserts, incs>>

\* await Registration.deleteMany({event: id}); the comments and ratings of
\* the event are deleted as well; 200.
EventDeleteRows(r) ==
    /\ At(r, "x_rows")
    /\ status' = [u \in Users |-> "none"]
    /\ Put(r, [Finish(r, "ok") EXCEPT
                 !.applied = {u \in Users : status[u] # "none"}])
    /\ UNCHANGED <<event, now, client, attendeeCount, uncast, currentCount,
                   releases, inserts, incs>>

\* The requests of this specification are the calls of the event routes, on
\* an event that was published and has registrations: updates by the
\* organizer or a user, approvals by a holder of approve_events or a user,
\* deletions by the organizer or a co-organizer.
NextEvent ==
    \/ \E b \in Bodies : \E a \in {Staff, 1} : EventUpdateLoad(a, b)
    \/ \E r \in InFlight : EventUpdateSet(r)
    \/ \E approved \in BOOLEAN : \E a \in {Approver, 1} :
          EventApproveLoad(a, approved)
    \/ \E r \in InFlight : EventApproveSave(r)
    \/ \E a \in {Staff, CoOrganizer} : EventDeleteLoad(a)
    \/ \E r \in InFlight : EventDeleteEvent(r)
    \/ \E r \in InFlight : EventDeleteRows(r)

SpecEvent == Init /\ [][NextEvent]_vars

\* ------------------------------------------------- the authority checks
\* The requests of this specification are Decide, attendance and Cancel calls
\* of every kind of caller.
NextAuthority ==
    \/ \E u \in Users, approved \in BOOLEAN :
          \E a \in Actors(u) : DecideLoad(a, u, approved)
    \/ \E r \in InFlight : DecideSave(r)
    \/ \E r \in InFlight : DecideRelease(r)
    \/ \E u \in Users, present \in BOOLEAN :
          \E a \in Actors(u) : AttendanceLoad(a, u, present)
    \/ \E r \in InFlight : AttendanceSave(r)
    \/ \E u \in Users : \E a \in Actors(u) : CancelLoad(a, u)
    \/ \E r \in InFlight : CancelSave(r)
    \/ \E r \in InFlight : CancelRelease(r)

SpecAuthority == Init /\ [][NextAuthority]_vars

\* ------------------------------------------------------ the eligibility
\* An event, published or still a draft, with any allowed* lists and the
\* registration deadline MaxTime - 1 (the registrations it has were made
\* before the lists were set).
InitEligibility ==
    /\ Seeded
    /\ eventStatus \in {"published", "draft"}
    /\ approval = IF eventStatus = "published" THEN "approved" ELSE "pending"
    /\ deadline = MaxTime - 1
    /\ allowedRoles \in SUBSET Roles
    /\ allowedDepartments \in SUBSET Departments
    /\ allowedYears \in SUBSET Years

\* The requests of this specification are Register calls.
NextEligibility == Register \/ Tick

SpecEligibility == InitEligibility /\ [][NextEligibility]_vars

\* --------------------------------------------------- persistence failures
\* await registration.save() rejects: the catch block answers 500.
RegisterSaveFails(r) ==
    /\ At(r, "r_save")
    /\ Put(r, Finish(r, "InternalError"))
    /\ UNCHANGED <<event, now, client, attendeeCount, uncast, currentCount,
                   status, releases, inserts, incs>>

\* await Event.findByIdAndUpdate rejects after the row was saved: the catch
\* block answers 500 and nothing undoes the insert.
RegisterIncFails(r) ==
    /\ At(r, "r_inc")
    /\ Put(r, Finish(r, "InternalError"))
    /\ UNCHANGED <<event, now, client, attendeeCount, uncast, currentCount,
                   status, releases, inserts, incs>>

NextFault ==
    \/ Next
    \/ \E r \in InFlight : RegisterSaveFails(r)
    \/ \E r \in InFlight : RegisterIncFails(r)

SpecFault == Init /\ [][NextFault]_vars

\* ================================================================ properties
Holding    == {"pending", "approved", "attended"}
NonHolding == {"rejected", "cancelled", "absent"}

Quiescent == inflight = EmptyBag

\* The request in flight r took a step.
Handled(r) == r \in InFlight /\ CopiesIn(r, inflight') < CopiesIn(r, inflight)

\* The request in flight r was answered in this step; last' is that request.
Answered(r) ==
    Handled(r) /\ BagCardinality(inflight') < BagCardinality(inflight)

\* A request was answered in its first step; last' is that request.
Immediate == started' = started + 1 /\ inflight' = inflight

\* C1: the event's currentCount is never above maxCapacity and never below 0.
CapacityInvariant == 0 <= currentCount /\ currentCount <= maxCapacity

\* C2: with maxCapacity = 1 and an event without registrations (every row that
\* exists was saved by one of the two calls), when the only two requests are
\* Register calls of two distinct users, exactly one of them succeeds and the
\* other one fails with EventFull (stated at the step that sends the second
\* answer, `last` being the first answer).
AdmissionRace ==
    [][\A r \in InFlight :
         ( /\ maxCapacity = 1
           /\ started = 2
           /\ Answered(r) /\ r.op = "register"
           /\ last.op = "register"
           /\ last.target # r.target
           /\ {u \in Users : status'[u] # "none"} = last.applied \cup last'.applied )
         => \/ last.result = "ok" /\ last'.result = "EventFull"
            \/ last'.result = "ok" /\ last.result = "EventFull"]_vars

\* C3: no registration has more than one capacity release ($inc -1) issued
\* for it over its lifetime.
NoDoubleRelease == \A u \in Users : releases[u] <= 1

\* C4: a Decide(approved) that loaded the registration as pending sets it to
\* approved, answers ok and leaves currentCount alone; a Decide(approved) by an
\* authorized actor that finds the registration already approved never gets
\* past its status check: it is answered InvalidTransition in its first step,
\* which changes neither the status nor currentCount.
DecideTwiceRejected ==
    [][/\ \A r \in InFlight :
            (Handled(r) /\ r.pc = "d_save" /\ r.flag)
            => /\ status'[r.target] = "approved"
               /\ currentCount' = currentCount
               /\ Answered(r)
               /\ last'.result = "ok"
       /\ \A r \in BagToSet(inflight') :
            ~( /\ r.op = "decide" /\ r.flag
               /\ r.actor = Staff /\ r.loaded = "approved" )
       /\ ( /\ Immediate
            /\ last'.op = "decide" /\ last'.flag
            /\ last'.actor = Staff /\ last'.loaded = "approved" )
          => /\ last'.result = "InvalidTransition"
             /\ status' = status
             /\ currentCount' = currentCount]_vars

\* C4 witness: a registration that was created pending has been approved and
\* a further Decide(approved) on it was answered InvalidTransition; it is
\* still approved and nothing was released for it.
DecideTwiceWitness ==
    /\ approvalRequired
    /\ last.op = "decide" /\ last.flag /\ last.loaded = "approved"
    /\ last.actor = Staff
    /\ last.result = "InvalidTransition"
    /\ status[last.target] = "approved"
    /\ releases[last.target] = 0

\* C5: transitions on one pending registration are serialized: a Decide,
\* Cancel or bulk-approve that decided on status pending changes the row only
\* while it still is pending (of two such requests that overlap, one is applied
\* and the other is not).
SerializedTransitions ==
    [][\A r \in InFlight, u \in Users :
         ( /\ Handled(r)
           /\ r.op \in {"decide", "cancel", "bulk"}
           /\ r.loaded = "pending"
           /\ status'[u] # status[u] )
         => status[u] = "pending"]_vars

\* C6: when no request is in flight, currentCount equals the number of
\* registrations in a capacity-holding status.
CountMatchesHolders ==
    Quiescent => currentCount = Cardinality({u \in Users : status[u] \in Holding})

LegalTransitions ==
    { <<"none", "pending">>, <<"none", "approved">>,
      <<"pending", "approved">>, <<"pending", "rejected">>,
      <<"pending", "cancelled">>, <<"approved", "cancelled">>,
      <<"approved", "attended">>, <<"approved", "absent">> }

\* C7: every change of a registration's status is a legal transition; a
\* terminal status never changes.
LegalTransitionsOnly ==
    [][\A u \in Users :
         status'[u] # status[u] => <<status[u], status'[u]>> \in LegalTransitions]_vars

\* Declared capacity delta of the transition a request applies.
capacityDelta(o, flag) ==
    CASE o = "decide"     -> IF flag THEN 0 ELSE -1
      [] o = "attendance" -> IF flag THEN 0 ELSE -1
      [] o = "cancel"     -> -1

\* C8: a request that applied a transition to a pending or approved
\* registration has changed currentCount by exactly the transition's declared
\* delta when it answers.
DeclaredDelta ==
    ( /\ last.op \in {"decide", "attendance", "cancel"}
      /\ last.result = "ok"
      /\ last.loaded \in {"pending", "approved"} )
    => last.delta = capacityDelta(last.op, last.flag)

\* C9: a Cancel by an authorized actor that finds the registration in a
\* status that holds no capacity is answered with an error, writes nothing and
\* releases nothing.
CancelNeedsHolding ==
    ( /\ last.op = "cancel"
      /\ last.loaded \in NonHolding
      /\ canCancel(last.actor, last.target) )
    => last.result # "ok" /\ last.applied = {} /\ last.delta = 0

\* C10: a Register answered with an internal error has left no registration
\* row and no count behind.
FailedRegisterLeavesNothing ==
    (last.op = "register" /\ last.result = "InternalError")
    => last.applied = {} /\ last.delta = 0

\* A Register call r is at its deadline check in this step: its findOne has
\* returned no row of the user.
AtDeadlineCheck(r) ==
    Handled(r) /\ r.op = "register" /\ r.pc = "r_find" /\ status[r.target] = "none"

\* C11: a Register that reaches its deadline check after the event's
\* registration deadline is answered DeadlinePassed in that step; it has
\* saved no registration and has not changed currentCount.
DeadlineEnforced ==
    [][\A r \in InFlight :
         (AtDeadlineCheck(r) /\ deadline # NoDeadline /\ now > deadline)
         => /\ Answered(r)
            /\ last'.result = "DeadlinePassed"
            /\ last'.applied = {} /\ last'.delta = 0
            /\ status' = status
            /\ currentCount' = currentCount]_vars

\* C11 witness: a Register of a user without a registration was answered
\* DeadlinePassed after the deadline.
DeadlineEnforcedWitness ==
    /\ last.op = "register" /\ last.result = "DeadlinePassed"
    /\ deadline # NoDeadline /\ now > deadline
    /\ status[last.target] = "none"
    /\ last.applied = {} /\ last.delta = 0

\* The event is full: as the admission check counts, or by currentCount.
Full == countDocuments(status) >= maxCapacity \/ currentCount >= maxCapacity

\* C19: a Register that reaches its deadline check while the event is past
\* its deadline and full is not answered EventFull and does not go on to the
\* capacity check: its answer is DeadlinePassed.
DeadlineBeforeCapacity ==
    [][\A r \in InFlight :
         (AtDeadlineCheck(r) /\ deadlinePassed(deadline, now) /\ Full)
         => /\ Answered(r)
            /\ last'.op = "register" /\ last'.target = r.target
            /\ last'.result = "DeadlinePassed"]_vars

\* C19 witness: a Register was answered DeadlinePassed while the event was
\* past its deadline and every slot was taken.
DeadlineBeforeCapacityWitness ==
    /\ last.op = "register" /\ last.result = "DeadlinePassed"
    /\ deadlinePassed(deadline, now)
    /\ countDocuments(status) >= maxCapacity /\ currentCount >= maxCapacity
    /\ status[last.target] = "none"

\* C20: admission is closed at the deadline instant itself: a Register that
\* reaches its deadline check at now = deadline is answered DeadlinePassed.
ClosedAtDeadline ==
    [][\A r \in InFlight :
         (AtDeadlineCheck(r) /\ deadline # NoDeadline /\ now = deadline)
         => Answered(r) /\ last'.result = "DeadlinePassed"]_vars

\* C12: pending, approved and attended registrations hold a slot: a Register
\* that reaches its capacity check while maxCapacity or more registrations are
\* in one of these statuses is answered EventFull (so marking a registrant
\* attended makes no room for a new one).
AttendedHoldsSlot ==
    [][\A r \in InFlight :
         ( /\ Handled(r) /\ r.op = "register" /\ r.pc = "r_count"
           /\ Cardinality({u \in Users : status[u] \in Holding}) >= maxCapacity )
         => Answered(r) /\ last'.result = "EventFull"]_vars

\* C13: a user has at most one registration row for the event (none while
\* the status is "none"), and at most one $inc +1 of currentCount was issued
\* for the user, also when Register calls of the same user overlap.
OneRegistrationPerUser ==
    \A u \in Users :
        /\ inserts[u] = (IF status[u] = "none" THEN 0 ELSE 1)
        /\ incs[u] <= 1

\* C13 witness: of two overlapping Register calls of one user the second
\* insert was rejected by the unique index; the user has one row, counted once.
OneRegistrationWitness ==
    /\ last.op = "register" /\ last.result = "InternalError"
    /\ status[last.target] # "none"
    /\ inserts[last.target] = 1 /\ incs[last.target] = 1

\* C18: a Register that succeeds has created exactly one registration, in
\* status pending if the event requires approval and approved otherwise, and
\* has increased currentCount by exactly 1: its insert changes the caller's row
\* alone, from none to that status, and when it answers ok it has saved that
\* one row and its net change of currentCount is +1.
RegisterCreatesOne ==
    [][\A r \in InFlight :
         (Handled(r) /\ r.op = "register")
         => /\ (r.pc = "r_save" /\ ~Answered(r))
               => /\ status[r.target] = "none"
                  /\ status' = [status EXCEPT ![r.target] =
                                   IF approvalRequired THEN "pending" ELSE "approved"]
                  /\ inserts'[r.target] = 1
            /\ (Answered(r) /\ last'.result = "ok")
               => /\ last'.applied = {r.target}
                  /\ last'.delta = 1
                  /\ incs'[r.target] = 1
                  /\ status' = status /\ currentCount' = currentCount]_vars

\* C18 witness: a Register on an event that requires approval has succeeded;
\* the caller's registration is pending and was counted once.
RegisterCreatesOneWitness ==
    /\ approvalRequired
    /\ last.op = "register" /\ last.result = "ok"
    /\ last.applied = {last.target} /\ last.delta = 1
    /\ status[last.target] = "pending"
    /\ currentCount = Cardinality({u \in Users : status[u] = "pending"})

\* C14: the currentCount carried by the 'new-registration' broadcast of a
\* Register that succeeded is the event's currentCount as it was right after
\* that call's own $inc +1.
BroadcastCountIsPersisted ==
    (last.op = "register" /\ last.result = "ok")
    => newRegistration(last).currentCount = last.after

\* The Register call r emits its broadcast in this step; its last write, the
\* $inc, was an earlier step.
Emits(r) == Handled(r) /\ r.pc = "r_emit"

\* The request in flight r makes its last write and emits its broadcast in
\* this one step (approve, reject, attendance, cancel).
CommitsAndEmits(r) ==
    /\ Handled(r)
    /\ \/ r.pc = "d_save" /\ r.flag
       \/ r.pc \in {"d_release", "a_save", "c_release"}

\* C15: the broadcasts of the event's changes are emitted in the order in
\* which the changes were committed: a broadcast is always that of the oldest
\* committed change not broadcast yet, also when handlers overlap.
BroadcastInCommitOrder ==
    [][\A r \in InFlight :
         /\ Emits(r) => Head(uncast) = change(r)
         /\ CommitsAndEmits(r) => uncast = << >>]_vars

\* C16: an observer that opens the event's page gets, as its first count, the
\* event's current currentCount.
SnapshotOnSubscribe ==
    [][(page = "loading" /\ page' = "shown") => attendeeCount' = currentCount]_vars

\* C17: on an event without approval, when no request is in flight (every
\* broadcast has been delivered) an observer that shows the event and whose
\* socket is in the event's room holds the event's currentCount.
ObserverHoldsPersistedCount ==
    (Quiescent /\ ~approvalRequired /\ page = "shown" /\ room)
    => attendeeCount = currentCount

\* C21: a Register that is answered with an error has persisted nothing and
\* has emitted nothing: the answering step changes no row, no count and
\* delivers no broadcast, and the call has saved no row and has made no net
\* change to currentCount.
RegisterErrorLeavesNothing ==
    [][/\ \A r \in InFlight :
            (Answered(r) /\ r.op = "register" /\ last'.result # "ok")
            => /\ last'.applied = {} /\ last'.delta = 0
               /\ status' = status /\ currentCount' = currentCount
               /\ uncast' = uncast /\ attendeeCount' = attendeeCount
       /\ (Immediate /\ last'.op = "register")
          => /\ last'.result # "ok"
             /\ last'.applied = {} /\ last'.delta = 0
             /\ status' = status /\ currentCount' = currentCount
             /\ uncast' = uncast /\ attendeeCount' = attendeeCount]_vars

\* C23: AlreadyRegistered is the answer only to a Register of a user who has
\* a registration for the event that is not rejected or cancelled; a user
\* whose registration is rejected or cancelled is not turned away with it.
AlreadyRegisteredOnlyIfActive ==
    [][\A r \in InFlight :
         ( /\ Answered(r) /\ r.op = "register"
           /\ last'.result = "AlreadyRegistered" )
         => status[r.target] \notin {"none", "rejected", "cancelled"}]_vars

\* The caller of the request r has the authority the spec asks for: to decide
\* or mark attendance, the organizer, a co-organizer, a holder of
\* approve_events or an admin; to cancel, the registrant, the organizer or an
\* admin.
Authorized(r) ==
    IF r.op = "cancel" THEN r.actor \in {r.target, Staff, Admin}
    ELSE r.actor \in {Staff, CoOrganizer, Approver, Admin}

\* C22: a Decide, attendance or Cancel call on an existing registration by a
\* caller without authority is answered NotAuthorized in its first step,
\* which changes neither a status nor currentCount; such a call is never in
\* flight, and every step that changes a status or currentCount is the step
\* of a call whose caller has the authority.
OnlyAuthorizedChange ==
    [][/\ ( /\ Immediate
            /\ last'.op \in {"decide", "attendance", "cancel"}
            /\ status[last'.target] # "none"
            /\ ~Authorized(last') )
          => /\ last'.result = "NotAuthorized"
             /\ status' = status /\ currentCount' = currentCount
       /\ \A r \in BagToSet(inflight') : Authorized(r)
       /\ (status' # status \/ currentCount' # currentCount)
          => \E r \in InFlight : Handled(r) /\ Authorized(r)]_vars

\* C22 witness: a co-organizer, who may decide but not cancel, asked to cancel
\* an approved registration and was answered NotAuthorized; the registration
\* is still approved and counted.
OnlyAuthorizedWitness ==
    /\ last.op = "cancel" /\ last.actor = CoOrganizer
    /\ last.result = "NotAuthorized"
    /\ status[last.target] = "approved"
    /\ releases[last.target] = 0
    /\ currentCount = Cardinality({u \in Users : status[u] # "none"})

\* The request r was taken in this step and is in flight.
Taken(r) ==
    /\ started' = started + 1
    /\ r \in BagToSet(inflight')
    /\ CopiesIn(r, inflight') > CopiesIn(r, inflight)

\* C28: a bulk-approve handles the listed registrations that are pending when
\* it loads them and no other; each of its saves sets one of them to approved
\* or rejected as a single Decide does and leaves currentCount alone; a
\* rejection is followed by one $inc -1 for that registration; when it answers
\* it has changed currentCount by 0 (approved) or by -1 for each registration
\* it rejected; a bulk-approve that finds no pending registration in its list
\* changes nothing.
BulkLikeDecide ==
    [][/\ \A r \in BagToSet(inflight') :
            (Taken(r) /\ r.op = "bulk")
            => /\ r.todo # {} /\ r.applied = {} /\ r.delta = 0
               /\ \A u \in r.todo : status[u] = "pending"
               /\ status' = status /\ currentCount' = currentCount
       /\ (Immediate /\ last'.op = "bulk")
          => /\ last'.applied = {} /\ last'.delta = 0
             /\ status' = status /\ currentCount' = currentCount
       /\ \A r \in InFlight :
            (Handled(r) /\ r.op = "bulk")
            => /\ r.pc = "b_save"
                  => /\ \E u \in r.todo :
                          status' = [status EXCEPT ![u] =
                                       IF r.flag THEN "approved" ELSE "rejected"]
                     /\ currentCount' = currentCount
               /\ r.pc = "b_release"
                  => /\ ~r.flag
                     /\ status' = status
                     /\ currentCount' = currentCount - 1
                     /\ releases' = [releases EXCEPT ![r.target] = @ + 1]
               /\ Answered(r)
                  => /\ last'.todo = {} /\ last'.result = "ok"
                     /\ last'.delta = (IF r.flag THEN 0
                                       ELSE 0 - Cardinality(last'.applied))]_vars

\* C28 witness: a bulk rejection of every registration, all of them pending,
\* has answered; each is rejected and was released once.
BulkLikeDecideWitness ==
    /\ last.op = "bulk" /\ ~last.flag /\ last.result = "ok"
    /\ last.applied = Users /\ last.delta = 0 - NumUsers
    /\ \A u \in Users : status[u] = "rejected" /\ releases[u] = 1
    /\ currentCount = 0

\* C24: currentCount changes only by the $inc +1 of a Register or by the
\* $inc -1 of a release (reject, cancel, bulk rejection); no step of another
\* request, an event update in particular, changes it.
CountChangesByIncOnly ==
    [][currentCount' # currentCount
       => \E r \in InFlight :
            /\ Handled(r)
            /\ \/ r.pc = "r_inc" /\ currentCount' = currentCount + 1
               \/ /\ r.pc \in {"d_release", "c_release", "b_release"}
                  /\ currentCount' = currentCount - 1]_vars

\* C25: the maxCapacity and approvalRequired of a published event do not
\* change, and an event is never published with maxCapacity below its
\* currentCount.
PublishedCapacityFrozen ==
    [][/\ eventStatus = "published"
          => /\ maxCapacity' = maxCapacity
             /\ approvalRequired' = approvalRequired
       /\ eventStatus' = "published" => maxCapacity' >= currentCount']_vars

\* C26: a registration row that exists is never removed.
RowsAreKept ==
    [][\A u \in Users : status[u] # "none" => status'[u] # "none"]_vars

\* A non-empty allowed* list of the event does not contain the role, the
\* department or the year of user u.
Restricted(u) ==
    \/ allowedRoles # {} /\ role(u) \notin allowedRoles
    \/ allowedDepartments # {} /\ department(u) \notin allowedDepartments
    \/ allowedYears # {} /\ year(u) \notin allowedYears

\* C27: a Register on a published event is answered NotEligible exactly when
\* a non-empty allowed* list does not contain the caller's role, department or
\* year; the answer comes in the call's first step, after the published check
\* (an event that is not published answers EventNotAdmitting) and before the
\* already-registered, deadline and capacity checks, which only a call of an
\* eligible user on a published event reaches.
EligibilityChecked ==
    [][/\ (Immediate /\ last'.op = "register")
          => /\ last'.result \in {"EventNotAdmitting", "NotEligible"}
             /\ last'.result = "EventNotAdmitting" <=> eventStatus # "published"
             /\ last'.result = "NotEligible"
                <=> (eventStatus = "published" /\ Restricted(last'.target))
       /\ \A r \in BagToSet(inflight') :
            (Taken(r) /\ r.op = "register")
            => eventStatus = "published" /\ ~Restricted(r.target)
       /\ \A r \in InFlight :
            (Answered(r) /\ r.op = "register")
            => last'.result \notin {"EventNotAdmitting", "NotEligible"}]_vars

\* C27 witness: a Register of a user who is not in a non-empty allowed list
\* was answered NotEligible although the user has a registration, the
\* deadline has passed and the event is full.
EligibilityWitness ==
    /\ last.op = "register" /\ last.result = "NotEligible"
    /\ eventStatus = "published"
    /\ allowedRoles # {} /\ role(last.target) \notin allowedRoles
    /\ allowedDepartments = {} /\ allowedYears = {}
    /\ status[last.target] # "none"
    /\ deadlinePassed(deadline, now)
    /\ countDocuments(status) >= maxCapacity

\* connect() runs in this step: this.socket becomes a new, connecting socket.
Connects ==
    /\ socket' = "CONNECTING"
    /\ \/ socket # "CONNECTING"
       \/ CopiesIn("CONNECTING", others') > CopiesIn("CONNECTING", others)

\* C29: after disconnect() (the page is closed) no connection is opened until
\* the page is opened again: the close that disconnect() asked for schedules
\* no reconnect and the service does not connect while the page stays
\* closed; and reconnectAttempts, which only an open resets, never exceeds
\* maxReconnectAttempts.
NoReconnectAfterDisconnect ==
    [][/\ CopiesIn("CLOSING", others') < CopiesIn("CLOSING", others)
          => /\ reconnectTimeout' = reconnectTimeout
             /\ timers' = timers
             /\ reconnectAttempts' = reconnectAttempts
       /\ (page = "closed" /\ page' = "closed") => ~Connects
       /\ reconnectAttempts' <= maxReconnectAttempts]_vars

\* The page shows, or is loading, the event.
Mounted == page \in {"loading", "shown"}

\* C30: whenever the socket is open while the event's page is mounted, a
\* join-event for the event is eventually sent on that connection (or the
\* connection or the page goes away first).
JoinEventuallySent ==
    (socket = "OPEN" /\ Mounted /\ ~joined)
    ~> (joined \/ socket # "OPEN" \/ ~Mounted)
====
